---- MODULE Spec2Model ----
(***************************************************************************)
(* Model of the referral system's core: utils/validation                   *)
(* (sanitizeUserInput, validateUserInput), services/userService            *)
(* (UserService) and config/config.                                        *)
(*                                                                         *)
(* A JavaScript string is a sequence of one-character strings.  A          *)
(* JavaScript value is a record [t, s]: t is its type tag ("undefined",    *)
(* "null", "string", "number") and s its characters (the digits of a       *)
(* number, empty for undefined and null).                                  *)
(*                                                                         *)
(* users and nextUserId are the fields of the UserService; now is the wall *)
(* clock; lastCall and result are the last call made and what it returned; *)
(* requests are the POST /api/register requests the server has received,   *)
(* each with its response once its handler has run.                        *)
(***************************************************************************)
EXTENDS Integers, Sequences, FiniteSets, TLC

VARIABLES users, nextUserId, now, lastCall, result, requests

vars == <<users, nextUserId, now, lastCall, result, requests>>

----------------------------------------------------------------------------
(* Bounds of the model *)

\* largest value of the id counter (it also grows on a failed code generation)
MaxId == 6
\* latest reading of the wall clock
MaxTime == 5
\* number of random byte triples, beyond the two that spell seed codes
NumFresh == 1
\* UpdatePoints is not taken beyond this absolute value of points
MaxPoints == 30
\* largest value of the id counter where six users are registered
MaxStatisticsId == 7
\* number of POST /api/register requests in flight
MaxRequests == 2

----------------------------------------------------------------------------
(* config/config.js *)

minNameLength == 2
maxNameLength == 50
minEmailLength == 5
maxEmailLength == 100
referralCodeLength == 6
referralBonus == 10
initialPoints == 0
\* generateReferralCode
maxAttempts == 100

----------------------------------------------------------------------------
(* JavaScript strings and values *)

Uppers == <<"A","B","C","D","E","F","G","H","I","J","K","L","M",
            "N","O","P","Q","R","S","T","U","V","W","X","Y","Z">>
Lowers == <<"a","b","c","d","e","f","g","h","i","j","k","l","m",
            "n","o","p","q","r","s","t","u","v","w","x","y","z">>
Digits == <<"0","1","2","3","4","5","6","7","8","9">>
HexDigits == <<"0","1","2","3","4","5","6","7","8","9","a","b","c","d","e","f">>

Range(f) == {f[i] : i \in DOMAIN f}

\* the characters \s matches and trim() strips, among those the model uses
WhiteSpace == {" ", "\t", "\n"}

\* the letters that change under toLowerCase and toUpperCase
LowerOf == [c \in Range(Uppers) |-> Lowers[CHOOSE i \in DOMAIN Uppers : Uppers[i] = c]]
UpperOf == [c \in Range(Lowers) |-> Uppers[CHOOSE i \in DOMAIN Lowers : Lowers[i] = c]]

toLowerChar(c) == IF c \in DOMAIN LowerOf THEN LowerOf[c] ELSE c

toUpperChar(c) == IF c \in DOMAIN UpperOf THEN UpperOf[c] ELSE c

toLowerCase(s) == [i \in 1..Len(s) |-> toLowerChar(s[i])]
toUpperCase(s) == [i \in 1..Len(s) |-> toUpperChar(s[i])]

\* String.prototype.trim: strip leading and trailing white space
trim(s) ==
    LET keep == {i \in 1..Len(s) : s[i] \notin WhiteSpace}
    IN  IF keep = {} THEN <<>>
        ELSE LET lo == CHOOSE i \in keep : \A j \in keep : i <= j
                 hi == CHOOSE i \in keep : \A j \in keep : j <= i
             IN  SubSeq(s, lo, hi)

Undefined == [t |-> "undefined", s |-> <<>>]
Null == [t |-> "null", s |-> <<>>]
Str(s) == [t |-> "string", s |-> s]
Num(digits) == [t |-> "number", s |-> digits]

IsString(v) == v.t = "string"

\* JavaScript truthiness of a value: !v is ~Truthy(v)
Truthy(v) ==
    CASE v.t = "string" -> v.s # <<>>
      [] v.t = "number" -> v.s # <<"0">>
      [] OTHER -> FALSE

----------------------------------------------------------------------------
(* utils/validation *)

\* /^[^\s@]+@[^\s@]+\.[^\s@]+$/.test(email): no white space, one "@", not
\* first, and after it a "." that is neither next to the "@" nor last
isValidEmail(email) ==
    LET ats == {k \in 1..Len(email) : email[k] = "@"}
    IN  /\ \A k \in 1..Len(email) : email[k] \notin WhiteSpace
        /\ Cardinality(ats) = 1
        /\ \A i \in ats :
              /\ 1 < i
              /\ \E j \in (i + 2)..(Len(email) - 1) : email[j] = "."

\* /^[A-Z0-9]{6}$/.test(code)
isValidReferralCode(code) ==
    /\ Len(code) = 6
    /\ \A k \in 1..Len(code) : code[k] \in Range(Uppers) \cup Range(Digits)

\* the name branch of validateUserInput
NameErrors(name) ==
    IF ~Truthy(name) \/ ~IsString(name)
    THEN <<"Name is required and must be a string">>
    ELSE LET trimmedName == trim(name.s)
         IN  IF Len(trimmedName) = 0
             THEN <<"Name cannot be empty">>
             ELSE IF Len(trimmedName) < minNameLength
             THEN <<"Name must be at least 2 characters long">>
             ELSE IF Len(trimmedName) > maxNameLength
             THEN <<"Name cannot exceed 50 characters">>
             ELSE <<>>

\* EmailErrors, every length and format check run on a non-empty email
EmailErrorsAll(email) ==
    IF ~Truthy(email) \/ ~IsString(email)
    THEN <<"Email is required and must be a string">>
    ELSE LET trimmedEmail == toLowerCase(trim(email.s))
         IN  IF Len(trimmedEmail) = 0
             THEN <<"Email cannot be empty">>
             ELSE (IF Len(trimmedEmail) < minEmailLength
                   THEN <<"Email must be at least 5 characters long">> ELSE <<>>)
                  \o (IF Len(trimmedEmail) > maxEmailLength
                      THEN <<"Email cannot exceed 100 characters">> ELSE <<>>)
                  \o (IF ~isValidEmail(trimmedEmail)
                      THEN <<"Email format is invalid">> ELSE <<>>)

\* the email branch of validateUserInput
EmailErrors(email) ==
    IF ~Truthy(email) \/ ~IsString(email)
    THEN <<"Email is required and must be a string">>
    ELSE LET trimmedEmail == toLowerCase(trim(email.s))
         IN  IF Len(trimmedEmail) = 0
             THEN <<"Email cannot be empty">>
             ELSE IF Len(trimmedEmail) < minEmailLength
             THEN <<"Email must be at least 5 characters long">>
             ELSE IF Len(trimmedEmail) > maxEmailLength
             THEN <<"Email cannot exceed 100 characters">>
             ELSE IF ~isValidEmail(trimmedEmail)
             THEN <<"Email format is invalid">>
             ELSE <<>>

\* the referral code branch of validateUserInput
ReferralCodeErrors(referralCode) ==
    IF referralCode.t \in {"undefined", "null"}
    THEN <<>>
    ELSE IF ~IsString(referralCode)
    THEN <<"Referral code must be a string">>
    ELSE LET trimmedCode == toUpperCase(trim(referralCode.s))
         IN  IF Len(trimmedCode) = 0
             THEN <<"Referral code cannot be empty">>
             ELSE IF Len(trimmedCode) # referralCodeLength
             THEN <<"Referral code must be exactly 6 characters">>
             ELSE IF ~isValidReferralCode(trimmedCode)
             THEN <<"Referral code must contain only alphanumeric characters">>
             ELSE <<>>

\* validateUserInput, returning at the first field in error
validateUserInputFirst(userData) ==
    LET errors == IF NameErrors(userData.name) # <<>>
                  THEN NameErrors(userData.name)
                  ELSE IF EmailErrors(userData.email) # <<>>
                  THEN EmailErrors(userData.email)
                  ELSE ReferralCodeErrors(userData.referralCode)
    IN  [isValid |-> Len(errors) = 0, errors |-> errors]

\* validateUserInput(userData): {isValid, errors}
validateUserInput(userData) ==
    LET errors == NameErrors(userData.name) \o EmailErrors(userData.email)
                    \o ReferralCodeErrors(userData.referralCode)
    IN  [isValid |-> Len(errors) = 0, errors |-> errors]

\* one field of sanitizeUserInput: a falsy field is left out (it reads back
\* as undefined), a truthy string is normalised by f
SanitizeField(v, f(_)) ==
    IF Truthy(v) THEN Str(f(v.s)) ELSE Undefined

\* SanitizeName, stripping one leading white-space character only
SanitizeNameStripOne(s) ==
    IF s # <<>> /\ s[1] \in WhiteSpace THEN Tail(s) ELSE s

SanitizeName(s) == trim(s)
\* SanitizeEmail, keeping the case of the letters
SanitizeEmailNoLower(s) == trim(s)

SanitizeEmail(s) == toLowerCase(trim(s))
SanitizeCode(s) == toUpperCase(trim(s))

\* a truthy value without a trim method makes sanitizeUserInput throw
SanitizeThrows(userData) ==
    \E v \in {userData.name, userData.email, userData.referralCode} :
        Truthy(v) /\ ~IsString(v)

\* sanitizeUserInput(userData), when it does not throw
sanitizeUserInput(userData) ==
    [name |-> SanitizeField(userData.name, SanitizeName),
     email |-> SanitizeField(userData.email, SanitizeEmail),
     referralCode |-> SanitizeField(userData.referralCode, SanitizeCode)]

\* Array.prototype.join(', ')
RECURSIVE Join(_)
Join(errors) ==
    IF Len(errors) = 0 THEN ""
    ELSE IF Len(errors) = 1 THEN errors[1]
    ELSE errors[1] \o ", " \o Join(Tail(errors))

----------------------------------------------------------------------------
(* services/userService: the directory *)

sAliceJohnson == <<"A","l","i","c","e"," ","J","o","h","n","s","o","n">>
sBobSmith == <<"B","o","b"," ","S","m","i","t","h">>
sCarolDavis == <<"C","a","r","o","l"," ","D","a","v","i","s">>
sAliceEmail == <<"a","l","i","c","e","@","e","x","a","m","p","l","e",".","c","o","m">>
sBobEmail == <<"b","o","b","@","e","x","a","m","p","l","e",".","c","o","m">>
sCarolEmail == <<"c","a","r","o","l","@","e","x","a","m","p","l","e",".","c","o","m">>
sABC123 == <<"A","B","C","1","2","3">>
sDEF456 == <<"D","E","F","4","5","6">>
sGHI789 == <<"G","H","I","7","8","9">>

\* new Date('2024-01-01'), new Date('2024-01-02'), new Date('2024-01-03'),
\* as days of January 2024; the process starts later
Date20240101 == 1
Date20240102 == 2
Date20240103 == 3
StartTime == Date20240103 + 1

\* UserService.constructor: this.users
SeedUsers ==
    << [id |-> 1, name |-> sAliceJohnson, email |-> sAliceEmail,
        referralCode |-> sABC123, points |-> 0,
        createdAt |-> Date20240101, updatedAt |-> Date20240101],
       [id |-> 2, name |-> sBobSmith, email |-> sBobEmail,
        referralCode |-> sDEF456, points |-> 20,
        createdAt |-> Date20240102, updatedAt |-> Date20240102],
       [id |-> 3, name |-> sCarolDavis, email |-> sCarolEmail,
        referralCode |-> sGHI789, points |-> 50,
        createdAt |-> Date20240103, updatedAt |-> Date20240103] >>

\* UserService.constructor: this.nextUserId
SeedNextUserId == 4

\* Array.prototype.find as an index: the first i with P(us[i]), 0 when none
FindIndex(us, P(_)) ==
    IF \E i \in 1..Len(us) : P(us[i])
    THEN CHOOSE i \in 1..Len(us) : P(us[i]) /\ \A j \in 1..(i - 1) : ~P(us[j])
    ELSE 0

\* what a lookup returns: null from the guard, the user found by find(), or
\* find()'s undefined
JsNull == [t |-> "null"]
JsUndefined == [t |-> "undefined"]
JsUser(u) == [t |-> "object", user |-> u]
Found(r) == r.t = "object"

\* findUserByReferralCode, comparing the code as given
findUserByReferralCodeExact(us, referralCode) ==
    IF ~Truthy(referralCode) \/ ~IsString(referralCode)
    THEN JsNull
    ELSE LET Match(u) == u.referralCode = referralCode.s
             i == FindIndex(us, Match)
         IN  IF i = 0 THEN JsUndefined ELSE JsUser(us[i])

\* findUserByReferralCode(referralCode)
findUserByReferralCode(us, referralCode) ==
    IF ~Truthy(referralCode) \/ ~IsString(referralCode)
    THEN JsNull
    ELSE LET normalizedCode == toUpperCase(trim(referralCode.s))
             Match(u) == u.referralCode = normalizedCode
             i == FindIndex(us, Match)
         IN  IF i = 0 THEN JsUndefined ELSE JsUser(us[i])

\* findUserByEmail, normalising as findUserByReferralCode does
findUserByEmailUpper(us, email) ==
    IF ~Truthy(email) \/ ~IsString(email)
    THEN JsNull
    ELSE LET normalizedEmail == toUpperCase(trim(email.s))
             Match(u) == u.email = normalizedEmail
             i == FindIndex(us, Match)
         IN  IF i = 0 THEN JsUndefined ELSE JsUser(us[i])

\* findUserByEmail(email)
findUserByEmail(us, email) ==
    IF ~Truthy(email) \/ ~IsString(email)
    THEN JsNull
    ELSE LET normalizedEmail == toLowerCase(trim(email.s))
             Match(u) == u.email = normalizedEmail
             i == FindIndex(us, Match)
         IN  IF i = 0 THEN JsUndefined ELSE JsUser(us[i])

\* getUserById(id)
getUserById(us, id) ==
    LET Match(u) == u.id = id
        i == FindIndex(us, Match)
    IN  IF i = 0 THEN JsUndefined ELSE JsUser(us[i])

\* getAllUsers(): the users, in the order of this.users, each copied field
\* by field
getAllUsers(us) ==
    [i \in 1..Len(us) |->
        [id |-> us[i].id, name |-> us[i].name, email |-> us[i].email,
         referralCode |-> us[i].referralCode, points |-> us[i].points,
         createdAt |-> us[i].createdAt, updatedAt |-> us[i].updatedAt]]

----------------------------------------------------------------------------
(* generateReferralCode *)

\* Buffer.toString('hex') of one byte
HexByte(b) == <<HexDigits[(b \div 16) + 1], HexDigits[(b % 16) + 1]>>

\* HexUpper, without toUpperCase()
HexLower(bytes) == HexByte(bytes[1]) \o HexByte(bytes[2]) \o HexByte(bytes[3])

\* crypto.randomBytes(3).toString('hex').toUpperCase()
HexUpper(bytes) ==
    toUpperCase(HexByte(bytes[1]) \o HexByte(bytes[2]) \o HexByte(bytes[3]))

\* String.prototype.padEnd(n, '0')
padEnd(s, n) == s \o [i \in 1..(IF Len(s) < n THEN n - Len(s) ELSE 0) |-> "0"]

\* the byte triples crypto.randomBytes(3) returns in the model: the two
\* that spell the seed codes ABC123 and DEF456, and NumFresh others
RandomBytes ==
    {<<171, 193, 35>>, <<222, 244, 86>>} \cup {<<0, 255, i>> : i \in 1..NumFresh}

\* one candidate of the loop
Candidate(bytes) ==
    LET code == HexUpper(bytes)
    IN  IF Len(code) < referralCodeLength THEN padEnd(code, referralCodeLength)
        ELSE code

\* CodeTaken, looking at the first user only
CodeTakenFirstOnly(us, code) == Len(us) > 0 /\ us[1].referralCode = code

\* this.users.some(user => user.referralCode === code)
CodeTaken(us, code) == \E i \in 1..Len(us) : us[i].referralCode = code

\* the candidates the loop can draw
RandomCodes == {Candidate(b) : b \in RandomBytes}

\* GenerateFrom, leaving the loop with the first candidate drawn
GenerateFromAny(taken, free, attempts) ==
    {[thrown |-> FALSE, code |-> c, attempts |-> attempts + 1] :
        c \in taken \cup free}

\* the outcomes of the do-while loop once `attempts` candidates have been
\* drawn: every draw is tried; a taken candidate below the bound loops, any
\* other draw leaves the loop, which then throws when attempts >= maxAttempts
RECURSIVE GenerateFrom(_, _, _)
GenerateFrom(taken, free, attempts) ==
    LET a == attempts + 1
        leaving == IF a < maxAttempts THEN free ELSE taken \cup free
        exits == {[thrown |-> a >= maxAttempts, code |-> c, attempts |-> a] :
                    c \in leaving}
    IN  IF taken # {} /\ a < maxAttempts
        THEN exits \cup GenerateFrom(taken, free, a)
        ELSE exits

\* the runs of the loop of generateReferralCode() when crypto.randomBytes
\* draws the candidates `codes`: the last candidate drawn, the number of
\* attempts made and whether the call throws
GenerateOutcomes(us, codes) ==
    LET taken == {c \in codes : CodeTaken(us, c)}
    IN  GenerateFrom(taken, codes \ taken, 0)

\* generateReferralCode() when crypto.randomBytes draws the candidates
\* `codes`: its possible outcomes, a code returned or an error thrown
generateReferralCodeFrom(us, codes) ==
    LET exits == GenerateOutcomes(us, codes)
    IN  {[thrown |-> FALSE, code |-> c] :
            c \in {c \in codes : \E o \in exits : ~o.thrown /\ o.code = c}}
        \cup {[thrown |-> TRUE, code |-> <<>>] :
                 o \in {o \in {TRUE} : \E x \in exits : x.thrown}}

\* generateReferralCode()
generateReferralCode(us) == generateReferralCodeFrom(us, RandomCodes)

----------------------------------------------------------------------------
(* registerUser, updateUserPoints, getUserStatistics *)

\* the object registerUser builds and pushes
NewUser(id, sanitizedData, code, t) ==
    [id |-> id, name |-> sanitizedData.name.s, email |-> sanitizedData.email.s,
     referralCode |-> code, points |-> initialPoints,
     createdAt |-> t, updatedAt |-> t]

\* AwardReferrer, leaving updatedAt as it was
AwardReferrerStale(us, referralCode, t) ==
    LET Match(u) == u.referralCode = toUpperCase(trim(referralCode.s))
        i == FindIndex(us, Match)
    IN  IF Found(findUserByReferralCode(us, referralCode))
        THEN [us EXCEPT ![i].points = @ + referralBonus]
        ELSE us

\* AwardReferrer, crediting the user just pushed
AwardReferrerLast(us, referralCode, t) ==
    IF Found(findUserByReferralCode(us, referralCode))
    THEN [us EXCEPT ![Len(us)].points = @ + referralBonus,
                    ![Len(us)].updatedAt = t]
    ELSE us

\* AwardReferrer, crediting the first user of the array
AwardReferrerFirst(us, referralCode, t) ==
    IF Found(findUserByReferralCode(us, referralCode))
    THEN [us EXCEPT ![1].points = @ + referralBonus, ![1].updatedAt = t]
    ELSE us

\* referrer.points += config.points.referralBonus; referrer.updatedAt = new Date()
\* on the user findUserByReferralCode finds after the push
AwardReferrer(us, referralCode, t) ==
    LET Match(u) == u.referralCode = toUpperCase(trim(referralCode.s))
        i == FindIndex(us, Match)
    IN  IF Found(findUserByReferralCode(us, referralCode))
        THEN [us EXCEPT ![i].points = @ + referralBonus, ![i].updatedAt = t]
        ELSE us

ValidationFailure(errors) ==
    [success |-> FALSE, error |-> Join(errors), statusCode |-> 400]
EmailExists ==
    [success |-> FALSE, error |-> "Email already exists", statusCode |-> 409]
InvalidReferralCode ==
    [success |-> FALSE, error |-> "Invalid referral code", statusCode |-> 400]
\* InternalServerError, carrying the message of the error caught
InternalServerErrorLeak ==
    [success |-> FALSE, error |-> "Unable to generate unique referral code",
     statusCode |-> 500]

InternalServerError ==
    [success |-> FALSE, error |-> "Internal server error", statusCode |-> 500]
Registered(newUser) ==
    [success |-> TRUE, user |-> newUser, statusCode |-> 201]

\* PostIncrement, the counter left as it was
PostIncrementStuck(nid) == nid

\* this.nextUserId++: the counter after the increment
PostIncrement(nid) == nid + 1

\* registerUser, pushing the new user before its referral code is generated
registerUserPushFirst(us, nid, userData, gen, t) ==
    IF SanitizeThrows(userData)
    THEN [users |-> us, nextUserId |-> nid, result |-> InternalServerError]
    ELSE
    LET sanitizedData == sanitizeUserInput(userData)
        validation == validateUserInput(sanitizedData)
    IN  IF ~validation.isValid
        THEN [users |-> us, nextUserId |-> nid,
              result |-> ValidationFailure(validation.errors)]
        ELSE IF Found(findUserByEmail(us, sanitizedData.email))
        THEN [users |-> us, nextUserId |-> nid, result |-> EmailExists]
        ELSE IF /\ Truthy(sanitizedData.referralCode)
                /\ ~Found(findUserByReferralCode(us, sanitizedData.referralCode))
        THEN [users |-> us, nextUserId |-> nid, result |-> InvalidReferralCode]
        ELSE IF gen.thrown
        THEN [users |-> Append(us, NewUser(nid, sanitizedData, <<>>, t)),
              nextUserId |-> PostIncrement(nid),
              result |-> InternalServerError]
        ELSE LET newUser == NewUser(nid, sanitizedData, gen.code, t)
                 pushed == Append(us, newUser)
                 awarded == IF Truthy(sanitizedData.referralCode)
                            THEN AwardReferrer(pushed, sanitizedData.referralCode, t)
                            ELSE pushed
             IN  [users |-> awarded, nextUserId |-> PostIncrement(nid),
                  result |-> Registered(newUser)]

\* registerUser, resolving the referral code before looking for the email
registerUserCodeFirst(us, nid, userData, gen, t) ==
    IF SanitizeThrows(userData)
    THEN [users |-> us, nextUserId |-> nid, result |-> InternalServerError]
    ELSE
    LET sanitizedData == sanitizeUserInput(userData)
        validation == validateUserInput(sanitizedData)
    IN  IF ~validation.isValid
        THEN [users |-> us, nextUserId |-> nid,
              result |-> ValidationFailure(validation.errors)]
        ELSE IF /\ Truthy(sanitizedData.referralCode)
                /\ ~Found(findUserByReferralCode(us, sanitizedData.referralCode))
        THEN [users |-> us, nextUserId |-> nid, result |-> InvalidReferralCode]
        ELSE IF Found(findUserByEmail(us, sanitizedData.email))
        THEN [users |-> us, nextUserId |-> nid, result |-> EmailExists]
        ELSE IF gen.thrown
        THEN [users |-> us, nextUserId |-> PostIncrement(nid),
              result |-> InternalServerError]
        ELSE LET newUser == NewUser(nid, sanitizedData, gen.code, t)
                 pushed == Append(us, newUser)
                 awarded == IF Truthy(sanitizedData.referralCode)
                            THEN AwardReferrer(pushed, sanitizedData.referralCode, t)
                            ELSE pushed
             IN  [users |-> awarded, nextUserId |-> PostIncrement(nid),
                  result |-> Registered(newUser)]

\* registerUser(userData) on the directory (us, nid) at time t, where gen is
\* the outcome of generateReferralCode when it is called: the directory
\* after the call and the result returned
registerUser(us, nid, userData, gen, t) ==
    IF SanitizeThrows(userData)
    THEN [users |-> us, nextUserId |-> nid, result |-> InternalServerError]
    ELSE
    LET sanitizedData == sanitizeUserInput(userData)
        validation == validateUserInput(sanitizedData)
    IN  IF ~validation.isValid
        THEN [users |-> us, nextUserId |-> nid,
              result |-> ValidationFailure(validation.errors)]
        ELSE IF Found(findUserByEmail(us, sanitizedData.email))
        THEN [users |-> us, nextUserId |-> nid, result |-> EmailExists]
        ELSE IF /\ Truthy(sanitizedData.referralCode)
                /\ ~Found(findUserByReferralCode(us, sanitizedData.referralCode))
        THEN [users |-> us, nextUserId |-> nid, result |-> InvalidReferralCode]
        ELSE IF gen.thrown
        \* id: this.nextUserId++ is evaluated before generateReferralCode()
        THEN [users |-> us, nextUserId |-> PostIncrement(nid),
              result |-> InternalServerError]
        ELSE LET newUser == NewUser(nid, sanitizedData, gen.code, t)
                 pushed == Append(us, newUser)
                 awarded == IF Truthy(sanitizedData.referralCode)
                            THEN AwardReferrer(pushed, sanitizedData.referralCode, t)
                            ELSE pushed
             IN  [users |-> awarded, nextUserId |-> PostIncrement(nid),
                  result |-> Registered(newUser)]

\* whether registerUser reaches generateReferralCode
ReachesGenerate(us, userData) ==
    /\ ~SanitizeThrows(userData)
    /\ LET sanitizedData == sanitizeUserInput(userData)
       IN  /\ validateUserInput(sanitizedData).isValid
           /\ ~Found(findUserByEmail(us, sanitizedData.email))
           /\ Truthy(sanitizedData.referralCode) =>
                 Found(findUserByReferralCode(us, sanitizedData.referralCode))

UserNotFound ==
    [success |-> FALSE, error |-> "User not found", statusCode |-> 404]
Updated(user) ==
    [success |-> TRUE, user |-> user, statusCode |-> 200]

\* updateUserPoints, changing the first user of the array
updateUserPointsFirst(us, userId, points, t) ==
    IF ~Found(getUserById(us, userId))
    THEN [users |-> us, result |-> UserNotFound]
    ELSE LET after == [us EXCEPT ![1].points = @ + points,
                                 ![1].updatedAt = t]
         IN  [users |-> after, result |-> Updated(after[1])]

\* updateUserPoints, leaving updatedAt as it was
updateUserPointsStale(us, userId, points, t) ==
    LET Match(u) == u.id = userId
        i == FindIndex(us, Match)
    IN  IF ~Found(getUserById(us, userId))
        THEN [users |-> us, result |-> UserNotFound]
        ELSE LET after == [us EXCEPT ![i].points = @ + points]
             IN  [users |-> after, result |-> Updated(after[i])]

\* updateUserPoints, subtracting the points
updateUserPointsSubtract(us, userId, points, t) ==
    LET Match(u) == u.id = userId
        i == FindIndex(us, Match)
    IN  IF ~Found(getUserById(us, userId))
        THEN [users |-> us, result |-> UserNotFound]
        ELSE LET after == [us EXCEPT ![i].points = @ - points,
                                     ![i].updatedAt = t]
             IN  [users |-> after, result |-> Updated(after[i])]

\* updateUserPoints(userId, points) at time t
updateUserPoints(us, userId, points, t) ==
    LET Match(u) == u.id = userId
        i == FindIndex(us, Match)
    IN  IF ~Found(getUserById(us, userId))
        THEN [users |-> us, result |-> UserNotFound]
        ELSE LET after == [us EXCEPT ![i].points = @ + points,
                                     ![i].updatedAt = t]
             IN  [users |-> after, result |-> Updated(after[i])]

\* insert u into a sequence sorted by (a, b) => b.points - a.points, after
\* the elements that do not sort after it
InsertByPoints(sorted, u) ==
    LET after == {k \in 1..Len(sorted) : sorted[k].points < u.points}
        pos == IF after = {} THEN Len(sorted) + 1
               ELSE CHOOSE k \in after : \A j \in after : k <= j
    IN  SubSeq(sorted, 1, pos - 1) \o <<u>> \o SubSeq(sorted, pos, Len(sorted))

\* Array.prototype.sort((a, b) => b.points - a.points): a stable sort, by
\* points, highest first
RECURSIVE SortByPoints(_)
SortByPoints(us) ==
    IF Len(us) = 0 THEN <<>>
    ELSE InsertByPoints(SortByPoints(SubSeq(us, 1, Len(us) - 1)), us[Len(us)])

RECURSIVE SumPoints(_)
SumPoints(us) ==
    IF Len(us) = 0 THEN 0 ELSE us[1].points + SumPoints(Tail(us))

\* MathRound, rounding down
MathFloor(n, d) == n \div d

\* Math.round(n / d) for d > 0: the nearest integer, a half rounded up
MathRound(n, d) == (2 * n + d) \div (2 * d)

\* this.users after getUserStatistics: sort() sorts the array in place
UsersAfterStatistics(us) == SortByPoints(us)

\* getUserStatistics(): what it returns
getUserStatistics(us) ==
    LET totalUsers == Len(us)
        totalPoints == SumPoints(us)
        sorted == SortByPoints(us)
        top == SubSeq(sorted, 1, IF Len(sorted) < 5 THEN Len(sorted) ELSE 5)
    IN  [totalUsers |-> totalUsers,
         totalPoints |-> totalPoints,
         averagePoints |-> IF totalUsers > 0 THEN MathRound(totalPoints, totalUsers)
                           ELSE 0,
         topUsers |-> [i \in 1..Len(top) |->
                          [name |-> top[i].name, email |-> top[i].email,
                           points |-> top[i].points]]]

----------------------------------------------------------------------------
(* The inputs of the model *)

\* a string of n letters x
Long(n) == [i \in 1..n |-> "x"]

\* registerUser is called with a name that is valid once trimmed,
RegisterNames == {Str(<<" ","J","o"," ">>)}

\* an email that is a seed email in another case and padded, or a new one,
RegisterEmails ==
    {Str(<<" ","A","L","I","C","E","@","E","X","A","M","P","L","E",".","C","O","M"," ">>),
     Str(<<"K","@","X",".","i","o"," ">>)}

\* and a referral code that is absent, a seed code in lower case and padded,
\* or well formed but held by nobody
RegisterCodes ==
    {Undefined, Str(<<" ","d","e","f","4","5","6">>), Str(<<"Z","Z","Z","Z","Z","Z">>)}

RegisterInputs ==
    [name : RegisterNames, email : RegisterEmails, referralCode : RegisterCodes]

\* further values, for the calls that start from one input
AllNames ==
    RegisterNames \cup {Undefined, Null, Str(<<>>), Str(<<" "," ">>),
                        Num(<<"4","2">>), Str(<<"A">>), Str(<<"J","o">>),
                        Str(Long(maxNameLength)), Str(Long(maxNameLength + 1))}
AllEmails ==
    RegisterEmails \cup {Undefined, Str(<<>>), Str(<<"\t">>), Num(<<"0">>),
                         Str(<<"b","a","d">>), Str(<<"i","n","v","a","l","i","d","-","e","m","a","i","l">>),
                         Str(<<"a","@","b","@","c",".","d","e">>), Str(<<"a"," ","b","@","c",".","d","e">>),
                         Str(Long(maxEmailLength - 5) \o <<"@","x",".","i","o">>),
                         Str(Long(maxEmailLength - 4) \o <<"@","x",".","i","o">>)}
AllCodes ==
    RegisterCodes \cup {Null, Str(<<>>), Str(<<" ">>), Num(<<"7">>),
                        Str(<<"a","b","c","1","2","3">>), Str(Candidate(<<0, 255, 1>>)),
                        Str(<<"I","N","V","A","L","I","D">>), Str(<<"A","B","-","1","2","3">>), Str(<<"g","h","i","7","8","9">>)}

AllInputs == [name : AllNames, email : AllEmails, referralCode : AllCodes]

\* user ids given to updateUserPoints and getUserById: the seed user whose
\* code RegisterCodes holds, and nobody
LookupIds == {2, 999}

\* the deltas given to updateUserPoints
Deltas == {-30, 30}

----------------------------------------------------------------------------
(* The state machine *)

Init ==
    /\ users = SeedUsers
    /\ nextUserId = SeedNextUserId
    /\ now = StartTime
    /\ lastCall = [op |-> "constructor"]
    /\ result = JsUndefined
    /\ requests = <<>>

\* the wall clock advances
Tick ==
    /\ now < MaxTime
    /\ now' = now + 1
    /\ UNCHANGED <<users, nextUserId, lastCall, result, requests>>

\* registerUser(userData), generateReferralCode having the outcome gen
RegisterStep(userData, gen) ==
    LET r == registerUser(users, nextUserId, userData, gen, now)
    IN  /\ r.nextUserId <= MaxId
        /\ users' = r.users
        /\ nextUserId' = r.nextUserId
        /\ result' = r.result
        /\ lastCall' = [op |-> "registerUser", userData |-> userData]
        /\ UNCHANGED <<now, requests>>

\* the outcomes of generateReferralCode registerUser can meet: those of the
\* call when it is reached, and a placeholder when it is not
GenOutcomes(us, userData) ==
    IF ReachesGenerate(us, userData) THEN generateReferralCode(us)
    ELSE {[thrown |-> FALSE, code |-> <<>>]}

Register(inputs) ==
    \E userData \in inputs : \E gen \in GenOutcomes(users, userData) :
        RegisterStep(userData, gen)

UpdatePointsStep(userId, points) ==
    LET r == updateUserPoints(users, userId, points, now)
    IN  /\ \A i \in 1..Len(r.users) :
              r.users[i].points # users[i].points
                => r.users[i].points \in (-MaxPoints)..MaxPoints
        /\ users' = r.users
        /\ result' = r.result
        /\ lastCall' = [op |-> "updateUserPoints", userId |-> userId,
                        points |-> points]
        /\ UNCHANGED <<nextUserId, now, requests>>

UpdatePoints(deltas) ==
    \E userId \in LookupIds : \E points \in deltas :
        UpdatePointsStep(userId, points)

Statistics ==
    /\ result' = getUserStatistics(users)
    /\ users' = UsersAfterStatistics(users)
    /\ lastCall' = [op |-> "getUserStatistics"]
    /\ UNCHANGED <<nextUserId, now, requests>>

ListAll ==
    /\ result' = [list |-> getAllUsers(users)]
    /\ lastCall' = [op |-> "getAllUsers"]
    /\ UNCHANGED <<users, nextUserId, now, requests>>

FindByReferralCode ==
    \E referralCode \in RegisterCodes :
        /\ result' = findUserByReferralCode(users, referralCode)
        /\ lastCall' = [op |-> "findUserByReferralCode",
                        referralCode |-> referralCode]
        /\ UNCHANGED <<users, nextUserId, now, requests>>

FindByEmail ==
    \E email \in RegisterEmails :
        /\ result' = findUserByEmail(users, email)
        /\ lastCall' = [op |-> "findUserByEmail", email |-> email]
        /\ UNCHANGED <<users, nextUserId, now, requests>>

GetById ==
    \E id \in LookupIds :
        /\ result' = getUserById(users, id)
        /\ lastCall' = [op |-> "getUserById", id |-> id]
        /\ UNCHANGED <<users, nextUserId, now, requests>>

Next ==
    \/ Tick
    \/ Register(RegisterInputs)
    \/ UpdatePoints(Deltas)
    \/ Statistics
    \/ ListAll
    \/ FindByReferralCode
    \/ FindByEmail
    \/ GetById

Spec == Init /\ [][Next]_vars

----------------------------------------------------------------------------
(* One request body, sanitized, validated and registered on the seed
   directory *)

InitInput ==
    /\ users = SeedUsers
    /\ nextUserId = SeedNextUserId
    /\ now = StartTime
    /\ \E userData \in AllInputs :
          lastCall = [op |-> "request", userData |-> userData]
    /\ result = JsUndefined
    /\ requests = <<>>

\* sanitizeUserInput(userData)
SanitizeCall ==
    /\ result' = IF SanitizeThrows(lastCall.userData)
                 THEN [thrown |-> TRUE]
                 ELSE [thrown |-> FALSE,
                       value |-> sanitizeUserInput(lastCall.userData)]
    /\ lastCall' = [op |-> "sanitizeUserInput", userData |-> lastCall.userData]
    /\ UNCHANGED <<users, nextUserId, now, requests>>

\* validateUserInput(userData)
ValidateCall ==
    /\ result' = validateUserInput(lastCall.userData)
    /\ lastCall' = [op |-> "validateUserInput", userData |-> lastCall.userData]
    /\ UNCHANGED <<users, nextUserId, now, requests>>

\* registerUser(userData)
RegisterCall ==
    \E gen \in GenOutcomes(users, lastCall.userData) :
        RegisterStep(lastCall.userData, gen)

\* findUserByReferralCode(referralCode) with the request's referral code
FindByReferralCodeCall ==
    /\ result' = findUserByReferralCode(users, lastCall.userData.referralCode)
    /\ lastCall' = [op |-> "findUserByReferralCode",
                    referralCode |-> lastCall.userData.referralCode,
                    userData |-> lastCall.userData]
    /\ UNCHANGED <<users, nextUserId, now, requests>>

\* findUserByEmail(email) with the request's email
FindByEmailCall ==
    /\ result' = findUserByEmail(users, lastCall.userData.email)
    /\ lastCall' = [op |-> "findUserByEmail",
                    email |-> lastCall.userData.email,
                    userData |-> lastCall.userData]
    /\ UNCHANGED <<users, nextUserId, now, requests>>

NextInput ==
    \/ SanitizeCall
    \/ ValidateCall
    \/ RegisterCall
    \/ FindByReferralCodeCall
    \/ FindByEmailCall

SpecInput == InitInput /\ [][NextInput]_vars

----------------------------------------------------------------------------
(* Registrations, points updates and statistics, up to six users *)

\* three new emails, registered without a referral code
StatisticsEmails ==
    {Str(<<"d","@","x",".","i","o">>), Str(<<"e","@","x",".","i","o">>),
     Str(<<"f","@","x",".","i","o">>)}

StatisticsInputs ==
    [name : RegisterNames, email : StatisticsEmails,
     referralCode : {Undefined}]

\* the candidates crypto.randomBytes draws here
StatisticsCodes ==
    {Candidate(<<0, 255, 1>>), Candidate(<<0, 255, 2>>), Candidate(<<0, 255, 3>>)}

\* registerUser(userData)
StatisticsRegister ==
    \E userData \in StatisticsInputs :
    \E gen \in IF ReachesGenerate(users, userData)
                THEN generateReferralCodeFrom(users, StatisticsCodes)
                ELSE {[thrown |-> FALSE, code |-> <<>>]} :
        LET r == registerUser(users, nextUserId, userData, gen, now)
        IN  /\ r.nextUserId <= MaxStatisticsId
            /\ users' = r.users
            /\ nextUserId' = r.nextUserId
            /\ result' = r.result
            /\ lastCall' = [op |-> "registerUser", userData |-> userData]
            /\ UNCHANGED <<now, requests>>

NextStatistics ==
    \/ StatisticsRegister
    \/ UpdatePoints(Deltas)
    \/ Statistics

SpecStatistics == Init /\ [][NextStatistics]_vars

----------------------------------------------------------------------------
(* Calls of generateReferralCode, between registrations *)

\* generateReferralCode(), in a run of its loop that ends after `attempts`
\* draws with the candidate `candidate`; `previous` is what the call before
\* returned when it was a call of generateReferralCode too
GenerateCode ==
    \E o \in GenerateOutcomes(users, RandomCodes) :
        /\ result' = IF o.thrown THEN [thrown |-> TRUE, code |-> <<>>]
                      ELSE [thrown |-> FALSE, code |-> o.code]
        /\ lastCall' = [op |-> "generateReferralCode",
                        attempts |-> o.attempts,
                        candidate |-> o.code,
                        previous |-> IF lastCall.op = "generateReferralCode"
                                     THEN result ELSE JsUndefined]
        /\ UNCHANGED <<users, nextUserId, now, requests>>

NextGenerate ==
    \/ GenerateCode
    \/ Register(RegisterInputs)

SpecGenerate == Init /\ [][NextGenerate]_vars

----------------------------------------------------------------------------
(* POST /api/register, several requests in flight *)

\* the bodies of the requests: one email written in two ways, with and
\* without the referral code of a seed user
ConcurrentInputs ==
    [name : RegisterNames,
     email : {Str(<<"K","@","X",".","i","o"," ">>), Str(<<"k","@","x",".","i","o">>)},
     referralCode : {Undefined, Str(<<" ","d","e","f","4","5","6">>)}]

\* a request reaches the server; its handler has not run yet
Receive ==
    \E userData \in ConcurrentInputs :
        /\ Len(requests) < MaxRequests
        /\ requests' = Append(requests, [userData |-> userData,
                                         response |-> JsUndefined])
        /\ UNCHANGED <<users, nextUserId, now, lastCall, result>>

\* res.status(result.statusCode).json({...})
Response(r) ==
    IF r.success
    THEN [statusCode |-> r.statusCode, success |-> TRUE,
          message |-> "User registered successfully", user |-> r.user]
    ELSE [statusCode |-> r.statusCode, success |-> FALSE, error |-> r.error]

\* Handle, on the directory as the constructor left it
HandleStale ==
    \E i \in 1..Len(requests) :
        \E gen \in GenOutcomes(SeedUsers, requests[i].userData) :
            LET r == registerUser(SeedUsers, nextUserId,
                                  requests[i].userData, gen, now)
            IN  /\ requests[i].response = JsUndefined
                /\ r.nextUserId <= MaxId
                /\ users' = r.users
                /\ nextUserId' = r.nextUserId
                /\ result' = r.result
                /\ lastCall' = [op |-> "registerUser",
                                userData |-> requests[i].userData]
                /\ requests' = [requests EXCEPT ![i].response = Response(r.result)]
                /\ UNCHANGED now

\* the handler of POST /register runs for one of the requests received: it
\* is synchronous, so registerUser and the response are one step
Handle ==
    \E i \in 1..Len(requests) :
        \E gen \in GenOutcomes(users, requests[i].userData) :
            LET r == registerUser(users, nextUserId,
                                  requests[i].userData, gen, now)
            IN  /\ requests[i].response = JsUndefined
                /\ r.nextUserId <= MaxId
                /\ users' = r.users
                /\ nextUserId' = r.nextUserId
                /\ result' = r.result
                /\ lastCall' = [op |-> "registerUser",
                                userData |-> requests[i].userData]
                /\ requests' = [requests EXCEPT ![i].response = Response(r.result)]
                /\ UNCHANGED now

NextConcurrent ==
    \/ Receive
    \/ Handle

SpecConcurrent == Init /\ [][NextConcurrent]_vars

----------------------------------------------------------------------------
(* What the specification says of a request body, stated apart from the
   code of validateUserInput *)

Supplied(v) == v.t \notin {"undefined", "null"}

ValidName(v) ==
    /\ IsString(v)
    /\ Len(trim(v.s)) >= 2
    /\ Len(trim(v.s)) <= 50

ValidEmail(v) ==
    /\ IsString(v)
    /\ Len(trim(v.s)) >= 5
    /\ Len(trim(v.s)) <= 100
    /\ isValidEmail(toLowerCase(trim(v.s)))

ValidCode(v) ==
    Supplied(v) =>
        /\ IsString(v)
        /\ Len(trim(v.s)) = 6
        /\ \A k \in 1..Len(trim(v.s)) :
              toUpperChar(trim(v.s)[k]) \in Range(Uppers) \cup Range(Digits)

NameMessages ==
    {"Name is required and must be a string", "Name cannot be empty",
     "Name must be at least 2 characters long",
     "Name cannot exceed 50 characters"}
EmailMessages ==
    {"Email is required and must be a string", "Email cannot be empty",
     "Email must be at least 5 characters long",
     "Email cannot exceed 100 characters", "Email format is invalid"}
CodeMessages ==
    {"Referral code must be a string", "Referral code cannot be empty",
     "Referral code must be exactly 6 characters",
     "Referral code must contain only alphanumeric characters"}

\* the error lists of one field: no error, or one of its messages
ListsOf(messages) == {<<>>} \cup {<<m>> : m \in messages}

\* errors lists the violated fields in the order name, email, referral code
ListsViolations(errors, userData) ==
    \E n \in ListsOf(NameMessages) : \E e \in ListsOf(EmailMessages) :
    \E c \in ListsOf(CodeMessages) :
        /\ errors = n \o e \o c
        /\ (n # <<>>) <=> ~ValidName(userData.name)
        /\ (e # <<>>) <=> ~ValidEmail(userData.email)
        /\ (c # <<>>) <=> ~ValidCode(userData.referralCode)

\* the error strings of validation failures that contain the message
ErrorsContaining(message) ==
    {Join(n \o e \o c) : n \in ListsOf(NameMessages),
                         e \in ListsOf(EmailMessages),
                         c \in ListsOf(CodeMessages)}
      \ {Join(n \o e \o c) : n \in ListsOf(NameMessages \ {message}),
                             e \in ListsOf(EmailMessages \ {message}),
                             c \in ListsOf(CodeMessages \ {message})}

Ids(us) == {us[i].id : i \in 1..Len(us)}
UserWithId(us, id) == us[CHOOSE i \in 1..Len(us) : us[i].id = id]

\* this step is a call of registerUser: every other call changes
\* lastCall.op, and the clock's tick changes now
RegisterReturns == lastCall'.op = "registerUser" /\ now' = now

\* the users holding the referral code of v, trimmed and upper-cased
Holders(us, v) ==
    {id \in Ids(us) :
        UserWithId(us, id).referralCode = toUpperCase(trim(v.s))}

----------------------------------------------------------------------------
(* Properties of the specification *)

\* C1: in every reachable state no two users have the same email, compared
\* case-insensitively, and no two users have the same referralCode.
C1_UniqueEmailAndCode ==
    \A i \in 1..Len(users) : \A j \in 1..Len(users) :
        i # j =>
            /\ toLowerCase(users[i].email) # toLowerCase(users[j].email)
            /\ users[i].referralCode # users[j].referralCode

\* a user has been registered
C1_Witness ==
    /\ lastCall.op = "registerUser"
    /\ result.success
    /\ Len(users) > Len(SeedUsers)

\* C2: a successful Register whose referral code, trimmed and upper-cased,
\* is held by user R adds exactly 10 to R's points and sets R's updatedAt
\* to the time of the call.
C2_ReferrerCredited ==
    [][(RegisterReturns /\ result'.statusCode = 201
          /\ IsString(lastCall'.userData.referralCode))
        => \A id \in Holders(users, lastCall'.userData.referralCode) :
              /\ id \in Ids(users')
              /\ UserWithId(users', id).points = UserWithId(users, id).points + 10
              /\ UserWithId(users', id).updatedAt = now]_vars

\* a registration with a referral code has succeeded and its referrer's
\* updatedAt is the time of the call
C2_Witness ==
    /\ lastCall.op = "registerUser"
    /\ result.statusCode = 201
    /\ IsString(lastCall.userData.referralCode)
    /\ \E id \in Holders(users, lastCall.userData.referralCode) :
          /\ UserWithId(users, id).updatedAt = result.user.createdAt
          /\ UserWithId(users, id).createdAt < result.user.createdAt

\* C3: a successful Register changes the points of no pre-existing user
\* other than the holder of the supplied referral code; with no code
\* supplied it changes nobody's points.
C3_OtherPointsUnchanged ==
    [][(RegisterReturns /\ result'.statusCode = 201)
        => \A id \in Ids(users) :
              (\/ ~Supplied(lastCall'.userData.referralCode)
               \/ id \notin Holders(users, lastCall'.userData.referralCode))
              => /\ id \in Ids(users')
                 /\ UserWithId(users', id).points = UserWithId(users, id).points]_vars

\* a registration without a referral code has succeeded, after the
\* directory was put in another order
C3_Witness ==
    /\ lastCall.op = "registerUser"
    /\ result.statusCode = 201
    /\ ~Supplied(lastCall.userData.referralCode)
    /\ users[1].id # 1

\* C4: Register with an otherwise valid input whose email, trimmed and
\* lower-cased, is an existing user's email returns success false, 409 and
\* "Email already exists".
C4_DuplicateEmailRejected ==
    [][(/\ RegisterReturns
        /\ ValidName(lastCall'.userData.name)
        /\ ValidEmail(lastCall'.userData.email)
        /\ ValidCode(lastCall'.userData.referralCode)
        /\ \E i \in 1..Len(users) :
              toLowerCase(users[i].email)
                = toLowerCase(trim(lastCall'.userData.email.s)))
        => result' = [success |-> FALSE, error |-> "Email already exists",
                      statusCode |-> 409]]_vars

\* the email of a registered user has been refused in another case
C4_Witness ==
    /\ lastCall.op = "registerUser"
    /\ result.statusCode = 409
    /\ Len(users) > Len(SeedUsers)
    /\ \E i \in 1..Len(users) :
          /\ users[i].id >= SeedNextUserId
          /\ users[i].email = toLowerCase(trim(lastCall.userData.email.s))
          /\ users[i].email # lastCall.userData.email.s

\* C5: Register with a valid name, an unused valid email and any supplied
\* referral code (a non-empty string, which sanitizeUserInput keeps) that
\* no user holds returns success false, 400 and "Invalid referral code".
C5_UnknownCodeRejected ==
    [][(/\ RegisterReturns
        /\ ValidName(lastCall'.userData.name)
        /\ ValidEmail(lastCall'.userData.email)
        /\ \A i \in 1..Len(users) :
              toLowerCase(users[i].email)
                # toLowerCase(trim(lastCall'.userData.email.s))
        /\ IsString(lastCall'.userData.referralCode)
        /\ Truthy(lastCall'.userData.referralCode)
        /\ Holders(users, lastCall'.userData.referralCode) = {})
        => result' = [success |-> FALSE, error |-> "Invalid referral code",
                      statusCode |-> 400]]_vars

\* C6: Register with a name that is empty, or empty once trimmed, and a
\* valid email fails with 400 and an error containing "Name cannot be empty".
C6_EmptyNameMessage ==
    (/\ lastCall.op = "registerUser"
     /\ IsString(lastCall.userData.name)
     /\ trim(lastCall.userData.name.s) = <<>>
     /\ ValidEmail(lastCall.userData.email))
    => /\ result.statusCode = 400
       /\ result.error \in ErrorsContaining("Name cannot be empty")

\* C7: Validate lists an error for each of name, email and referralCode
\* that violates its rules, in that order, isValid is true exactly when the
\* list is empty, and a validation failure of Register returns 400 with the
\* list of its sanitized input joined with ", ".
C7_AllErrorsInOrder ==
    /\ lastCall.op = "validateUserInput"
        => /\ ListsViolations(result.errors, lastCall.userData)
           /\ result.isValid <=> (result.errors = <<>>)
    /\ (/\ lastCall.op = "registerUser"
        /\ ~SanitizeThrows(lastCall.userData)
        /\ LET s == sanitizeUserInput(lastCall.userData)
           IN  ~(ValidName(s.name) /\ ValidEmail(s.email)
                    /\ ValidCode(s.referralCode)))
        => /\ ~result.success
           /\ result.statusCode = 400
           /\ \E n \in ListsOf(NameMessages) : \E e \in ListsOf(EmailMessages) :
              \E c \in ListsOf(CodeMessages) :
                 /\ ListsViolations(n \o e \o c,
                                    sanitizeUserInput(lastCall.userData))
                 /\ result.error = Join(n \o e \o c)

\* Validate has found an error in each of the three fields
C7_Witness ==
    /\ lastCall.op = "validateUserInput"
    /\ Len(result.errors) = 3

\* C8: every registered user receives an id greater than the id of every
\* user registered before it, and the next-id counter is always greater
\* than every id in the directory.
C8_IdsIncrease ==
    /\ [](\A i \in 1..Len(users) : users[i].id < nextUserId)
    /\ [][(RegisterReturns /\ result'.statusCode = 201)
            => /\ \A id \in Ids(users) : id < result'.user.id
               /\ Ids(users') = Ids(users) \cup {result'.user.id}]_vars

\* a user has been registered after a call that consumed an id
C8_Witness ==
    /\ lastCall.op = "registerUser"
    /\ result.statusCode = 201
    /\ result.user.id > SeedNextUserId

\* C9: ListAll returns every user once, in insertion order: the seed users
\* in seed order, then the registered users in the order they registered,
\* which is the order of their ids.
C9_ListInInsertionOrder ==
    lastCall.op = "getAllUsers"
        => /\ {result.list[i].id : i \in 1..Len(result.list)} = Ids(users)
           /\ \A i \in 1..Len(result.list) : \A j \in 1..Len(result.list) :
                 i < j => result.list[i].id < result.list[j].id

\* C10: in every reachable state every user's points is non-negative.
C10_PointsNonNegative ==
    \A i \in 1..Len(users) : users[i].points >= 0

\* C10, amended: points are integers that start non-negative, and a step
\* from a state where all are non-negative leads to such a state unless it
\* is a call of updateUserPoints with a negative delta.
C10_NonNegativeUnlessNegativeDelta ==
    /\ [](\A i \in 1..Len(users) : users[i].points \in Int)
    /\ [][(/\ C10_PointsNonNegative
           /\ ~(lastCall'.op = "updateUserPoints" /\ lastCall'.points < 0))
            => \A i \in 1..Len(users') : users'[i].points >= 0]_vars

\* points have been raised by updateUserPoints and nobody's are negative
C10_Witness ==
    /\ lastCall.op = "updateUserPoints"
    /\ lastCall.points > 0
    /\ result.success
    /\ C10_PointsNonNegative

\* C11: in every reachable state the referralCode of every user, seed or
\* registered, is 6 characters long and each character is one of A-Z, 0-9.
C11_CodeFormat ==
    \A i \in 1..Len(users) :
        /\ Len(users[i].referralCode) = 6
        /\ \A k \in 1..6 :
              users[i].referralCode[k] \in Range(Uppers) \cup Range(Digits)

\* the directory holds a user that registerUser added, with the code
\* generateReferralCode returned
C11_Witness ==
    \E i \in 1..Len(users) :
        /\ users[i].id >= SeedNextUserId
        /\ users[i].referralCode \in RandomCodes

\* this step is a call of updateUserPoints
UpdateReturns == lastCall'.op = "updateUserPoints" /\ now' = now

\* C12: updateUserPoints(id, delta) returns 404 "User not found" and leaves
\* the directory as it was when no user has the id; otherwise it returns
\* success, 200 and the user, whose points are the previous points plus
\* delta, and changes the points of no other user.
C12_UpdatePoints ==
    [][UpdateReturns =>
        LET id == lastCall'.userId
            delta == lastCall'.points
        IN  IF id \notin Ids(users)
            THEN /\ result' = [success |-> FALSE, error |-> "User not found",
                               statusCode |-> 404]
                 /\ users' = users
                 /\ nextUserId' = nextUserId
            ELSE /\ result'.success
                 /\ result'.statusCode = 200
                 /\ result'.user.id = id
                 /\ result'.user.points = UserWithId(users, id).points + delta
                 /\ Ids(users') = Ids(users)
                 /\ UserWithId(users', id).points
                      = UserWithId(users, id).points + delta
                 /\ \A other \in Ids(users) \ {id} :
                       UserWithId(users', other).points
                         = UserWithId(users, other).points]_vars

\* points have been taken from a user who is not the first of the array,
\* in a directory that holds a registered user
C12_Witness ==
    /\ lastCall.op = "updateUserPoints"
    /\ lastCall.points < 0
    /\ result.statusCode = 200
    /\ Len(users) > Len(SeedUsers)
    /\ users[1].id # lastCall.userId

\* the sum of the points of the first k users
RECURSIVE PointsOfFirst(_, _)
PointsOfFirst(us, k) ==
    IF k = 0 THEN 0 ELSE PointsOfFirst(us, k - 1) + us[k].points

\* this step is a call of getUserStatistics
StatisticsReturns == lastCall'.op = "getUserStatistics" /\ now' = now

\* C13: getUserStatistics returns the number of users, the sum of their
\* points, the average rounded to the nearest integer (0 without users), and
\* as topUsers min(5, totalUsers) distinct users in non-increasing order of
\* points, none of the users left out having more points than one listed.
C13_Statistics ==
    [][StatisticsReturns =>
        LET n == Len(users)
            total == PointsOfFirst(users, n)
            avg == result'.averagePoints
            top == result'.topUsers
        IN  /\ result'.totalUsers = n
            /\ result'.totalPoints = total
            /\ IF n = 0 THEN avg = 0
               ELSE 2 * avg * n - n <= 2 * total /\ 2 * total < 2 * avg * n + n
            /\ Len(top) = IF n < 5 THEN n ELSE 5
            /\ \A k \in 1..Len(top) : \A l \in 1..Len(top) :
                  /\ k < l => top[k].points >= top[l].points
                  /\ k # l => top[k].email # top[l].email
            /\ \A k \in 1..Len(top) : \E i \in 1..n :
                  top[k] = [name |-> users[i].name, email |-> users[i].email,
                            points |-> users[i].points]
            /\ \A i \in 1..n :
                  (\A k \in 1..Len(top) : top[k].email # users[i].email)
                    => \A k \in 1..Len(top) : users[i].points <= top[k].points]_vars

\* statistics of six users, one left out of topUsers, whose average is not
\* a whole number
C13_Witness ==
    /\ lastCall.op = "getUserStatistics"
    /\ result.totalUsers = 6
    /\ Len(result.topUsers) = 5
    /\ result.totalPoints % 6 # 0
    /\ result.topUsers[5].points < result.topUsers[1].points

\* C14: registerUser returns a result for every input: its statusCode is
\* 201, 400, 409 or 500; success is true and a user is present exactly when
\* it is 201, and an error string is present otherwise; a fault inside the
\* call (sanitizeUserInput throwing, generateReferralCode giving up, which
\* leaves the id counter advanced and no user added) yields success false,
\* "Internal server error" and 500.
C14_NoFaultEscapes ==
    [][RegisterReturns =>
        /\ result'.statusCode \in {201, 400, 409, 500}
        /\ result'.success <=> result'.statusCode = 201
        /\ IF result'.statusCode = 201
           THEN /\ DOMAIN result' = {"success", "user", "statusCode"}
                /\ result'.user \in Range(users')
           ELSE /\ DOMAIN result' = {"success", "error", "statusCode"}
                /\ result'.error # ""
        /\ (\/ SanitizeThrows(lastCall'.userData)
            \/ nextUserId' # nextUserId /\ users' = users
            \/ result'.statusCode = 500)
            => result' = [success |-> FALSE, error |-> "Internal server error",
                          statusCode |-> 500]]_vars

\* generateReferralCode has given up in a call whose input was valid
C14_Witness ==
    /\ lastCall.op = "registerUser"
    /\ result.statusCode = 500
    /\ ~SanitizeThrows(lastCall.userData)
    /\ nextUserId > SeedNextUserId
    /\ users = SeedUsers

\* two lookups return the same user, or both return none
SameUser(a, b) == IF Found(a) THEN Found(b) /\ a.user = b.user ELSE ~Found(b)

\* C15: for a string c, findUserByReferralCode(c) returns the user that
\* findUserByReferralCode of c trimmed and upper-cased returns, and the user
\* holding that code when there is one; for a string e, findUserByEmail(e)
\* returns the user that findUserByEmail of e trimmed and lower-cased
\* returns, and the user with that email when there is one.
C15_LookupsNormalise ==
    /\ (lastCall.op = "findUserByReferralCode" /\ IsString(lastCall.referralCode))
        => LET c == toUpperCase(trim(lastCall.referralCode.s))
           IN  /\ SameUser(result, findUserByReferralCode(users, Str(c)))
               /\ \A i \in 1..Len(users) :
                     users[i].referralCode = c
                       => Found(result) /\ result.user = users[i]
    /\ (lastCall.op = "findUserByEmail" /\ IsString(lastCall.email))
        => LET e == toLowerCase(trim(lastCall.email.s))
           IN  /\ SameUser(result, findUserByEmail(users, Str(e)))
               /\ \A i \in 1..Len(users) :
                     users[i].email = e
                       => Found(result) /\ result.user = users[i]

\* a user has been found by a referral code given in lower case
C15_Witness ==
    /\ lastCall.op = "findUserByReferralCode"
    /\ IsString(lastCall.referralCode)
    /\ Found(result)
    /\ result.user.referralCode # lastCall.referralCode.s
    /\ result.user.referralCode # trim(lastCall.referralCode.s)

\* C16: every code generateReferralCode returns differs from the
\* referralCode of every user in the directory at the time of the call, and
\* the code of a newly registered user from that of every user before it.
C16_GeneratedCodeUnused ==
    /\ [](\A o \in generateReferralCode(users) :
             ~o.thrown => \A i \in 1..Len(users) : users[i].referralCode # o.code)
    /\ [][(RegisterReturns /\ result'.statusCode = 201)
            => \A i \in 1..Len(users) :
                  users[i].referralCode # result'.user.referralCode]_vars

\* a user has been registered with a code drawn where other draws collide
\* with codes of the directory
C16_Witness ==
    /\ lastCall.op = "registerUser"
    /\ result.statusCode = 201
    /\ result.user.referralCode \in RandomCodes
    /\ \E c \in RandomCodes : CodeTaken(SeedUsers, c)

\* C17: getAllUsers, findUserByReferralCode, findUserByEmail, getUserById
\* and getUserStatistics leave the directory as it was: the users, their
\* order and the id counter.
C17_ReadsLeaveDirectory ==
    [][(/\ lastCall'.op \in {"getAllUsers", "findUserByReferralCode",
                             "findUserByEmail", "getUserById",
                             "getUserStatistics"}
        /\ now' = now)
        => users' = users /\ nextUserId' = nextUserId]_vars

\* the error list holds the message
Has(errors, message) == \E k \in 1..Len(errors) : errors[k] = message

\* the number of errors of the list that are among the messages
Count(errors, messages) ==
    Cardinality({k \in 1..Len(errors) : errors[k] \in messages})

\* C18: validateUserInput runs every length and format check of a field
\* that is not empty once trimmed, also after an earlier check of the field
\* failed; validateUserInput({name: "", email: "bad"}) is invalid with a
\* name error and the error "Email format is invalid".
C18_AllChecksOfAField ==
    lastCall.op = "validateUserInput"
        => LET email == lastCall.userData.email
               errors == result.errors
           IN  /\ (IsString(email) /\ Len(trim(email.s)) > 0)
                   => /\ Len(trim(email.s)) < 5
                         => Has(errors, "Email must be at least 5 characters long")
                      /\ Len(trim(email.s)) > 100
                         => Has(errors, "Email cannot exceed 100 characters")
                      /\ ~isValidEmail(toLowerCase(trim(email.s)))
                         => Has(errors, "Email format is invalid")
               /\ (/\ lastCall.userData.name = Str(<<>>)
                   /\ email = Str(<<"b", "a", "d">>))
                   => /\ ~result.isValid
                      /\ Count(errors, NameMessages) > 0
                      /\ Has(errors, "Email format is invalid")

\* C18, amended: the checks of a field are chained and validateUserInput
\* reports at most one error per field, that of the first check that fails:
\* for a non-empty string, empty once trimmed, then too short, then too
\* long, then (email, referral code) malformed; so "Email format is invalid"
\* is reported only for an email of 5 to 100 characters, and
\* validateUserInput({name: "", email: "bad"}) returns one name error and
\* "Email must be at least 5 characters long".
C18_FirstFailingCheckOnly ==
    lastCall.op = "validateUserInput"
        => LET name == lastCall.userData.name
               email == lastCall.userData.email
               code == lastCall.userData.referralCode
               errors == result.errors
           IN  /\ Count(errors, NameMessages) <= 1
               /\ Count(errors, EmailMessages) <= 1
               /\ Count(errors, CodeMessages) <= 1
               /\ (IsString(name) /\ name.s # <<>>)
                   => LET n == Len(trim(name.s))
                      IN  /\ Has(errors, "Name cannot be empty") <=> n = 0
                          /\ Has(errors, "Name must be at least 2 characters long")
                               <=> (0 < n /\ n < 2)
                          /\ Has(errors, "Name cannot exceed 50 characters")
                               <=> n > 50
               /\ (IsString(email) /\ email.s # <<>>)
                   => LET n == Len(trim(email.s))
                      IN  /\ Has(errors, "Email cannot be empty") <=> n = 0
                          /\ Has(errors, "Email must be at least 5 characters long")
                               <=> (0 < n /\ n < 5)
                          /\ Has(errors, "Email cannot exceed 100 characters")
                               <=> n > 100
                          /\ Has(errors, "Email format is invalid")
                               <=> /\ 5 <= n /\ n <= 100
                                   /\ ~isValidEmail(toLowerCase(trim(email.s)))
               /\ IsString(code)
                   => LET n == Len(trim(code.s))
                      IN  /\ Has(errors, "Referral code cannot be empty") <=> n = 0
                          /\ Has(errors, "Referral code must be exactly 6 characters")
                               <=> (n # 0 /\ n # 6)
                          /\ Has(errors, "Referral code must contain only alphanumeric characters")
                               <=> (n = 6 /\ ~ValidCode(code))
               /\ (name = Str(<<>>) /\ email = Str(<<"b", "a", "d">>))
                   => /\ ~result.isValid
                      /\ Count(errors, NameMessages) = 1
                      /\ Count(errors, EmailMessages) = 1
                      /\ Has(errors, "Email must be at least 5 characters long")

\* validateUserInput has been called with the name "" and the email "bad"
C18_Witness ==
    /\ lastCall.op = "validateUserInput"
    /\ lastCall.userData.name = Str(<<>>)
    /\ lastCall.userData.email = Str(<<"b", "a", "d">>)
    /\ Len(result.errors) >= 2

\* C19: registerUser with a name, email or referral code that is supplied
\* and is not a string returns success false and 400 with a "must be a
\* string" message, not the 500 of an internal error.
C19_NonStringIsValidationError ==
    (/\ lastCall.op = "registerUser"
     /\ \E v \in {lastCall.userData.name, lastCall.userData.email,
                  lastCall.userData.referralCode} :
           Supplied(v) /\ ~IsString(v))
    => /\ ~result.success
       /\ result.statusCode = 400
       /\ result.error \in
            ErrorsContaining("Name is required and must be a string")
              \cup ErrorsContaining("Email is required and must be a string")
              \cup ErrorsContaining("Referral code must be a string")

C21_FailureLeavesUsers ==
    [][RegisterReturns =>
        IF result'.statusCode = 201
        THEN /\ Len(users') = Len(users) + 1
             /\ users'[Len(users')] = result'.user
             /\ \A i \in 1..Len(users) :
                   /\ users'[i].id = users[i].id
                   /\ users'[i].name = users[i].name
                   /\ users'[i].email = users[i].email
                   /\ users'[i].referralCode = users[i].referralCode
                   /\ users'[i].createdAt = users[i].createdAt
             /\ Cardinality({i \in 1..Len(users) : users'[i] # users[i]}) <= 1
        ELSE /\ ~result'.success
             /\ result'.statusCode \in {400, 409, 500}
             /\ users' = users]_vars

\* the request that added a user has been made again and refused
C21_Witness ==
    /\ lastCall.op = "registerUser"
    /\ ~result.success
    /\ Len(users) = Len(SeedUsers) + 1
    /\ users[Len(users)].email
         = toLowerCase(trim(lastCall.userData.email.s))

\* C22: a registerUser call that returns success false, the 500 of a failed
\* code generation included, leaves the id counter as it was, so the users
\* registered one after the other have consecutive ids from the seed's
\* next id on.
C22_FailureLeavesCounter ==
    [][RegisterReturns =>
        /\ ~result'.success => nextUserId' = nextUserId
        /\ result'.statusCode = 201
            => result'.user.id
                 = SeedNextUserId + (Len(users) - Len(SeedUsers))]_vars

\* C23: generateReferralCode throws exactly when each of its 100 candidates
\* was held by a user (it made 100 attempts and the last candidate collided
\* too), and it returns a candidate nobody holds at whichever attempt, from
\* the 1st to the 100th, it is drawn.
C23_ThrowsOnlyWhenExhausted ==
    lastCall.op = "generateReferralCode"
        => /\ result.thrown
                <=> /\ lastCall.attempts = 100
                    /\ CodeTaken(users, lastCall.candidate)
           /\ ~CodeTaken(users, lastCall.candidate)
                => ~result.thrown /\ result.code = lastCall.candidate

\* C24: two calls of generateReferralCode one after the other, with no
\* registration between them, do not return the same code.
C24_NoDuplicateCodes ==
    (/\ lastCall.op = "generateReferralCode"
     /\ "thrown" \in DOMAIN lastCall.previous
     /\ ~lastCall.previous.thrown
     /\ ~result.thrown)
    => result.code # lastCall.previous.code


\* C25: when registerUser succeeds with a referral code c, the referral code
\* of the user it creates is not c (as given, or trimmed and upper-cased),
\* that user's points are the initial 0, and the referral bonus is added to
\* the points of a user who held c before the call.
C25_NoSelfReferral ==
    [][(/\ RegisterReturns
        /\ result'.statusCode = 201
        /\ Truthy(lastCall'.userData.referralCode))
       => LET c == lastCall'.userData.referralCode
              new == UserWithId(users', result'.user.id)
          IN  /\ result'.user.id \notin Ids(users)
              /\ new.referralCode # c.s
              /\ new.referralCode # toUpperCase(trim(c.s))
              /\ new.points = 0
              /\ result'.user.points = 0
              /\ \E id \in Holders(users, c) :
                    UserWithId(users', id).points
                        = UserWithId(users, id).points + referralBonus]_vars

C25_Witness ==
    /\ lastCall.op = "registerUser"
    /\ result.statusCode = 201
    /\ Truthy(lastCall.userData.referralCode)
    /\ UserWithId(users, result.user.id).points = 0
    /\ \E id \in Holders(users, lastCall.userData.referralCode) :
          /\ id # result.user.id
          /\ UserWithId(users, id).points >= referralBonus


\* C26: findUserByReferralCode and findUserByEmail return null, never
\* undefined, whenever they return no user: for an argument that is null,
\* undefined or not a string, and for a string that matches no user.
C26_NoMatchIsNull ==
    (lastCall.op \in {"findUserByReferralCode", "findUserByEmail"}
        /\ ~Found(result))
    => result = JsNull


\* C27: sanitizeUserInput, given fields that are strings, absent, null or
\* otherwise falsy, returns an object that has a field exactly when the
\* input's field is truthy: the name trimmed, the email trimmed and in lower
\* case, the referral code trimmed and in upper case. A field that is
\* absent, null or the empty string is left out; it is not set to "".
C27_SanitizeOmitsFalsy ==
    (lastCall.op = "sanitizeUserInput"
        /\ \A v \in {lastCall.userData.name, lastCall.userData.email,
                     lastCall.userData.referralCode} :
              Truthy(v) => IsString(v))
    => /\ ~result.thrown
       /\ LET x == lastCall.userData
              y == result.value
              Trimmed(s) == s = <<>> \/ (s[1] \notin WhiteSpace
                                         /\ s[Len(s)] \notin WhiteSpace)
          IN  /\ (y.name # Undefined) <=> Truthy(x.name)
              /\ (y.email # Undefined) <=> Truthy(x.email)
              /\ (y.referralCode # Undefined) <=> Truthy(x.referralCode)
              /\ Truthy(x.name)
                    => /\ y.name = Str(trim(x.name.s))
                       /\ Trimmed(y.name.s)
              /\ Truthy(x.email)
                    => /\ y.email = Str(toLowerCase(trim(x.email.s)))
                       /\ Trimmed(y.email.s)
                       /\ Range(y.email.s) \cap Range(Uppers) = {}
              /\ Truthy(x.referralCode)
                    => /\ y.referralCode = Str(toUpperCase(trim(x.referralCode.s)))
                       /\ Trimmed(y.referralCode.s)
                       /\ Range(y.referralCode.s) \cap Range(Lowers) = {}
              /\ \A f \in {"name", "email", "referralCode"} :
                    x[f] \in {Undefined, Null, Str(<<>>)} => y[f] = Undefined

\* an input with a name to trim, an email in upper case and an empty
\* referral code has been sanitized
C27_Witness ==
    /\ lastCall.op = "sanitizeUserInput"
    /\ ~result.thrown
    /\ lastCall.userData.referralCode = Str(<<>>)
    /\ result.value.referralCode = Undefined
    /\ IsString(lastCall.userData.name)
    /\ IsString(result.value.name)
    /\ Len(result.value.name.s) < Len(lastCall.userData.name.s)
    /\ IsString(result.value.email)
    /\ Range(lastCall.userData.email.s) \cap Range(Uppers) # {}


\* C28, as stated: for every input whose fields are strings or absent,
\* white-space-only strings included, sanitizing the sanitized input gives
\* the sanitized input again, and validateUserInput returns the same result
\* for the sanitized input and for the input sanitized twice.
C28_SanitizeIdempotent ==
    (lastCall.op = "sanitizeUserInput"
        /\ \A v \in {lastCall.userData.name, lastCall.userData.email,
                     lastCall.userData.referralCode} :
              IsString(v) \/ ~Supplied(v))
    => /\ ~result.thrown
       /\ sanitizeUserInput(result.value) = result.value
       /\ validateUserInput(sanitizeUserInput(result.value))
            = validateUserInput(result.value)

\* C28, amended: a field that is a non-empty string of white space only is
\* sanitized to "" and dropped when that result is sanitized again; every
\* other field is the same after one pass and after two, and a third pass
\* changes nothing. When no field is white-space-only the two forms are
\* equal and validate alike; when the referral code is white-space-only the
\* sanitized form fails validation with "Referral code cannot be empty" and
\* the form sanitized twice has no referral code error.
C28_IdempotentUnlessBlank ==
    (lastCall.op = "sanitizeUserInput"
        /\ \A v \in {lastCall.userData.name, lastCall.userData.email,
                     lastCall.userData.referralCode} :
              IsString(v) \/ ~Supplied(v))
    => /\ ~result.thrown
       /\ LET x == lastCall.userData
              y == result.value
              z == sanitizeUserInput(y)
              Blank(v) == IsString(v) /\ v.s # <<>> /\ trim(v.s) = <<>>
              fields == {"name", "email", "referralCode"}
          IN  /\ ~SanitizeThrows(y)
              /\ \A f \in fields :
                    IF Blank(x[f])
                    THEN y[f] = Str(<<>>) /\ z[f] = Undefined
                    ELSE z[f] = y[f]
              /\ sanitizeUserInput(z) = z
              /\ (\A f \in fields : ~Blank(x[f]))
                    => /\ z = y
                       /\ validateUserInput(z) = validateUserInput(y)
              /\ Blank(x.referralCode)
                    => /\ Has(validateUserInput(y).errors,
                              "Referral code cannot be empty")
                       /\ \A m \in CodeMessages :
                             ~Has(validateUserInput(z).errors, m)
                       /\ validateUserInput(z) # validateUserInput(y)

\* an input whose referral code is white space only has been sanitized
C28_Witness ==
    /\ lastCall.op = "sanitizeUserInput"
    /\ ~result.thrown
    /\ IsString(lastCall.userData.referralCode)
    /\ lastCall.userData.referralCode.s # <<>>
    /\ result.value.referralCode = Str(<<>>)
    /\ IsString(lastCall.userData.name)
    /\ IsString(lastCall.userData.email)
    /\ sanitizeUserInput(result.value) # result.value


\* the requests that have been answered
Answered == {i \in 1..Len(requests) : requests[i].response # JsUndefined}

\* the email of request i as registerUser compares it
EmailOf(i) == toLowerCase(trim(requests[i].userData.email.s))

\* the users of the directory registered with the email of request i
UsersWithEmailOf(i) ==
    {k \in 1..Len(users) : toLowerCase(users[k].email) = EmailOf(i)}

\* C29, as stated: of two or more answered requests that carry the same
\* valid email, which no user had before them, exactly one was answered 201
\* and every other 409, and the directory has exactly one user with that
\* email.
C29_ExactlyOneCreated ==
    \A i \in Answered :
        LET same == {j \in Answered : EmailOf(j) = EmailOf(i)}
            created == {j \in same : requests[j].response.statusCode = 201}
        IN  Cardinality(same) >= 2
            => /\ Cardinality(created) = 1
               /\ \A j \in same \ created :
                     requests[j].response.statusCode = 409
               /\ Cardinality(UsersWithEmailOf(i)) = 1

\* C29, amended: the handler runs registerUser to completion for one request
\* at a time, so of the answered requests that carry the same valid, unused
\* email at most one was answered 201, the users of the directory with that
\* email are exactly the one user of that 201 response (none without it),
\* and every other such request was answered 409 "Email already exists", or
\* 500 when generateReferralCode threw in its handler; a 409 is given only
\* once a 201 has been. Two or more requests of which none met a failure of
\* generateReferralCode are answered 201 for one of them and 409 for every
\* other, whichever is handled first.
C29_AtMostOneCreated ==
    \A i \in Answered :
        LET same == {j \in Answered : EmailOf(j) = EmailOf(i)}
            created == {j \in same : requests[j].response.statusCode = 201}
        IN  /\ Cardinality(created) <= 1
            /\ requests[i].response.statusCode \in {201, 409, 500}
            /\ Cardinality(UsersWithEmailOf(i)) = Cardinality(created)
            /\ \A j \in created : \A k \in UsersWithEmailOf(i) :
                  users[k].id = requests[j].response.user.id
            /\ requests[i].response.statusCode = 409
                  => /\ created # {}
                     /\ requests[i].response.error = "Email already exists"
            /\ (/\ Cardinality(same) >= 2
                /\ \A j \in same : requests[j].response.statusCode # 500)
                  => /\ Cardinality(created) = 1
                     /\ \A j \in same \ created :
                           requests[j].response.statusCode = 409

\* two requests with the same email, written differently, have been
\* answered, the one received first with 409 and the other with 201
C29_Witness ==
    /\ Len(requests) = 2
    /\ Answered = {1, 2}
    /\ EmailOf(1) = EmailOf(2)
    /\ requests[1].userData.email # requests[2].userData.email
    /\ requests[1].response.statusCode = 409
    /\ requests[2].response.statusCode = 201
    /\ Cardinality(UsersWithEmailOf(1)) = 1


\* C30: the createdAt of a user never changes once the user is in the
\* directory. A step that changes a user's points sets that user's updatedAt
\* to the time of the call, and so does every successful updateUserPoints
\* on the user; a user's updatedAt changes only in a registerUser that
\* succeeds with a referral code the user holds and in a successful
\* updateUserPoints on the user's id. In every state each user's updatedAt
\* is not earlier than its createdAt.
C30_Timestamps ==
    /\ [](\A i \in 1..Len(users) : users[i].updatedAt >= users[i].createdAt)
    /\ [][\A id \in Ids(users) :
            /\ id \in Ids(users')
            /\ LET u == UserWithId(users, id)
                   v == UserWithId(users', id)
               IN  /\ v.createdAt = u.createdAt
                   /\ v.points # u.points => v.updatedAt = now
                   /\ (UpdateReturns /\ result'.success /\ lastCall'.userId = id)
                        => v.updatedAt = now
                   /\ v.updatedAt # u.updatedAt
                        => \/ /\ UpdateReturns
                              /\ result'.success
                              /\ lastCall'.userId = id
                           \/ /\ RegisterReturns
                              /\ result'.statusCode = 201
                              /\ Truthy(lastCall'.userData.referralCode)
                              /\ id \in Holders(users, lastCall'.userData.referralCode)
                              /\ v.points = u.points + referralBonus]_vars

\* after the clock advanced, a user was registered with the referral code of
\* a seed user: the seed user's updatedAt is the time of the call and later
\* than its createdAt, the new user's timestamps are the time of the call
C30_Witness ==
    /\ lastCall.op = "registerUser"
    /\ result.statusCode = 201
    /\ Truthy(lastCall.userData.referralCode)
    /\ now > StartTime
    /\ UserWithId(users, result.user.id).createdAt = now
    /\ UserWithId(users, result.user.id).updatedAt = now
    /\ \E id \in Holders(users, lastCall.userData.referralCode) :
          /\ UserWithId(users, id).updatedAt = now
          /\ UserWithId(users, id).createdAt < StartTime
====
